---------------------------- MODULE Spec2Model ----------------------------
(***************************************************************************)
(* Model of .github/scripts/generate_json.py: the script that converts the *)
(* README and the markdown guides of docs/guides into api/guide.json, one  *)
(* JSON file per guide, index.html and the MCP manifest.json.              *)
(*                                                                         *)
(* Python strings are modelled as sequences of one-character strings, so   *)
(* that substring tests, regular-expression matches and replacements are   *)
(* computed character by character as the code computes them.  Positions   *)
(* are 1-based; 0 stands for Python's "not found" (-1 / None).             *)
(***************************************************************************)
EXTENDS Integers, Sequences, FiniteSets, TLC

VARIABLES pc, project_dir, content, guide_content, references,
          guides_dir_exists, guide_files, generated_guides,
          files, dirs, exit_code, manifest_failed,
          arg, outs

vars == <<pc, project_dir, content, guide_content, references,
          guides_dir_exists, guide_files, generated_guides,
          files, dirs, exit_code, manifest_failed, arg, outs>>

run_vars == <<project_dir, content, guide_content, references,
              guides_dir_exists, guide_files, generated_guides,
              files, dirs, exit_code, manifest_failed>>

----------------------------------------------------------------------------
(* Bounds of the model *)

MaxCommentFrags == 5
MaxLinkItems == 3
MaxPathFrags == 3
MaxDirEntries == 2
MaxGenerated == 3
MaxTemplateEndpoints == 2

----------------------------------------------------------------------------
(* String literals of the script *)

Guides == <<"g", "u", "i", "d", "e", "s">>
DotMd == <<".", "m", "d">>
DotJson == <<".", "j", "s", "o", "n">>
Python == <<"p", "y", "t", "h", "o", "n">>
Make == <<"m", "a", "k", "e">>
Postgresql == <<"p", "o", "s", "t", "g", "r", "e", "s", "q", "l">>
Sql == <<"s", "q", "l">>
Shell == <<"s", "h", "e", "l", "l">>
Language == <<"l", "a", "n", "g", "u", "a", "g", "e">>
Pattern == <<"p", "a", "t", "t", "e", "r", "n">>
Platform == <<"p", "l", "a", "t", "f", "o", "r", "m">>
Other == <<"o", "t", "h", "e", "r">>
Docs == <<"d", "o", "c", "s">>
Api == <<"a", "p", "i">>
ApiGuides == <<"a", "p", "i", "/", "g", "u", "i", "d", "e", "s">>
GuideJsonPath == <<"a", "p", "i", "/", "g", "u", "i", "d", "e", ".", "j", "s", "o", "n">>
IndexHtmlPath == <<"i", "n", "d", "e", "x", ".", "h", "t", "m", "l">>
ManifestPath == <<"m", "a", "n", "i", "f", "e", "s", "t", ".", "j", "s", "o", "n">>
Marker == <<"#", "#", " ", "T", "h", "e", " ", "G", "o", "l", "d", "e", "n", " ", "R", "u", "l", "e", "s">>
CommentOpen == <<"<", "!", "-", "-">>
CommentClose == <<"-", "-", ">">>
GuideFor == <<" ", "g", "u", "i", "d", "e", " ", "f", "o", "r", " ">>
MainGuide == <<"m", "a", "i", "n", "_", "g", "u", "i", "d", "e">>
Slash == <<"/">>

UpperCase == <<"A", "B", "C", "D", "E", "F", "G", "H", "I", "J", "K", "L", "M",
               "N", "O", "P", "Q", "R", "S", "T", "U", "V", "W", "X", "Y", "Z">>
LowerCase == <<"a", "b", "c", "d", "e", "f", "g", "h", "i", "j", "k", "l", "m",
               "n", "o", "p", "q", "r", "s", "t", "u", "v", "w", "x", "y", "z">>

----------------------------------------------------------------------------
(* Python string operations *)

Min(S) == CHOOSE x \in S : \A y \in S : x <= y

\* the substring s[i .. i+Len(sub)-1] is sub
MatchesAt(s, sub, i) ==
    /\ i >= 1
    /\ i + Len(sub) - 1 <= Len(s)
    /\ \A k \in 1..Len(sub) : s[i + k - 1] = sub[k]

\* str.find(sub, from): first position >= from where sub occurs, 0 if none
Find(s, sub, from) ==
    LET hits == {i \in from..(Len(s) - Len(sub) + 1) : MatchesAt(s, sub, i)}
    IN  IF hits = {} THEN 0 ELSE Min(hits)

\* sub in s
Contains(s, sub) == Find(s, sub, 1) # 0

\* s.endswith(sub)
EndsWith(s, sub) ==
    Len(sub) <= Len(s) /\ MatchesAt(s, sub, Len(s) - Len(sub) + 1)

\* s[from:] with a 1-based start
From(s, from) == SubSeq(s, from, Len(s))

IndexIn(c, alphabet) ==
    IF \E i \in 1..Len(alphabet) : alphabet[i] = c
    THEN CHOOSE i \in 1..Len(alphabet) : alphabet[i] = c
    ELSE 0

\* str.lower()
Lower(s) ==
    [i \in 1..Len(s) |->
        IF IndexIn(s[i], UpperCase) # 0
        THEN LowerCase[IndexIn(s[i], UpperCase)] ELSE s[i]]

\* str.capitalize(): first character upper-cased, the rest lower-cased
Capitalize(s) ==
    [i \in 1..Len(s) |->
        IF i = 1
        THEN IF IndexIn(s[i], LowerCase) # 0
             THEN UpperCase[IndexIn(s[i], LowerCase)] ELSE s[i]
        ELSE Lower(s)[i]]

RECURSIVE Replace(_, _, _)
\* str.replace(old, new): every non-overlapping occurrence, left to right
Replace(s, old, new) ==
    LET i == Find(s, old, 1)
    IN  IF i = 0 THEN s
        ELSE SubSeq(s, 1, i - 1) \o new \o Replace(From(s, i + Len(old)), old, new)

\* os.path.basename(path): what follows the last "/"
Basename(path) ==
    LET slashes == {i \in 1..Len(path) : path[i] = "/"}
    IN  IF slashes = {} THEN path
        ELSE From(path, (CHOOSE i \in slashes : \A j \in slashes : j <= i) + 1)

\* os.path.dirname(path): what precedes the last "/"
Dirname(path) ==
    LET slashes == {i \in 1..Len(path) : path[i] = "/"}
    IN  IF slashes = {} THEN <<>>
        ELSE SubSeq(path, 1, (CHOOSE i \in slashes : \A j \in slashes : j <= i) - 1)

\* os.path.join(a, b) for a relative b
Join(a, b) == a \o Slash \o b

RECURSIVE Flatten(_)
\* the concatenation of a sequence of strings
Flatten(ss) == IF ss = <<>> THEN <<>> ELSE Head(ss) \o Flatten(Tail(ss))

\* the sequences over S of length at most n
SeqsUpTo(S, n) == UNION {[1..k -> S] : k \in 0..n}

\* the sequences over S of length at most n without a repeated element
DistinctSeqsUpTo(S, n) ==
    {s \in SeqsUpTo(S, n) : \A i, j \in 1..Len(s) : i # j => s[i] # s[j]}

----------------------------------------------------------------------------
(* re.sub(r'<!--.*?-->', '', content, flags=re.DOTALL) *)

\* a plausible slip: only the first comment is removed (count=1)
strip_first_comment_only(text) ==
    LET o == Find(text, CommentOpen, 1)
        c == IF o = 0 THEN 0 ELSE Find(text, CommentClose, o + Len(CommentOpen))
    IN  IF o = 0 \/ c = 0 THEN text
        ELSE SubSeq(text, 1, o - 1) \o From(text, c + Len(CommentClose))

RECURSIVE stripComments(_)
\* The leftmost "<!--" that has a "-->" after it is removed together with
\* everything up to the first such "-->"; the scan goes on after the match
\* and never looks again at text it has already passed or produced.
stripComments(text) ==
    LET o == Find(text, CommentOpen, 1)
        c == IF o = 0 THEN 0 ELSE Find(text, CommentClose, o + Len(CommentOpen))
    IN  IF o = 0 \/ c = 0 THEN text
        ELSE SubSeq(text, 1, o - 1)
             \o stripComments(From(text, c + Len(CommentClose)))

----------------------------------------------------------------------------
(* infer_guide_type *)

\* a plausible slip: the 'shell' test moved before the 'sql' test
infer_guide_type_shell_first(path) ==
    LET p == Lower(path)
    IN  IF Contains(p, Python) THEN Language
        ELSE IF Contains(p, Make) THEN Pattern
        ELSE IF Contains(p, Shell) THEN Language
        ELSE IF Contains(p, Postgresql) \/ Contains(p, Sql) THEN Platform
        ELSE Other

infer_guide_type(path) ==
    LET p == Lower(path)
    IN  IF Contains(p, Python) THEN Language
        ELSE IF Contains(p, Make) THEN Pattern
        ELSE IF Contains(p, Postgresql) \/ Contains(p, Sql) THEN Platform
        ELSE IF Contains(p, Shell) THEN Language
        ELSE Other

----------------------------------------------------------------------------
(* extract_references *)

\* the end of the line that holds position i: the first "\n" at or after i,
\* Len(s) + 1 if there is none ('.' does not match a line break)
LineEnd(s, i) ==
    LET n == Find(s, <<"\n">>, i) IN IF n = 0 THEN Len(s) + 1 ELSE n

\* The match of r'\[(.*?)\]\((.*?)\)' that starts at position i, as
\* <<position of "](", position of ")">>, or <<>> if none starts there.
\* Both groups are lazy: the name ends at the first "](" of the line and
\* the path at the first ")" after it on the same line.
link_match(s, i) ==
    IF i > Len(s) \/ s[i] # "[" THEN <<>>
    ELSE LET e == LineEnd(s, i)
             j == Find(s, <<"]", "(">>, i + 1)
             k == IF j = 0 THEN 0 ELSE Find(s, <<")">>, j + 2)
         IN  IF j = 0 \/ j >= e \/ k = 0 \/ k >= e THEN <<>> ELSE <<j, k>>

\* a plausible slip: 'or' for 'and' in the filter of line 36
is_guide_path_or(path) == Contains(path, Guides) \/ EndsWith(path, DotMd)

\* the filter of line 36
is_guide_path(path) == Contains(path, Guides) /\ EndsWith(path, DotMd)

\* the record appended at lines 37-46
reference(name, path, base_url) ==
    LET guide_type == infer_guide_type(path)
        filename == Replace(Basename(path), DotMd, DotJson)
    IN  [name |-> name, path |-> path, type |-> guide_type,
         apiUrl |-> base_url \o Slash \o guide_type \o <<"s">> \o Slash \o filename]

RECURSIVE references_from(_, _, _)
\* re.finditer: matches are found left to right and do not overlap
references_from(s, i, base_url) ==
    IF i > Len(s) THEN <<>>
    ELSE LET m == link_match(s, i)
         IN  IF m = <<>> THEN references_from(s, i + 1, base_url)
             ELSE LET name == SubSeq(s, i + 1, m[1] - 1)
                      path == SubSeq(s, m[1] + 2, m[2] - 1)
                  IN  (IF is_guide_path(path)
                       THEN <<reference(name, path, base_url)>> ELSE <<>>)
                      \o references_from(s, m[2] + 1, base_url)

extract_references(text) == references_from(text, 1, ApiGuides)

----------------------------------------------------------------------------
(* Specifications that apply one function to inputs drawn from bounded    *)
(* sets.  The run's variables are idle in them.                            *)

RunIdle ==
    /\ project_dir = <<>>
    /\ content = <<>>
    /\ guide_content = <<>>
    /\ references = <<>>
    /\ guides_dir_exists = FALSE
    /\ guide_files = <<>>
    /\ generated_guides = <<>>
    /\ files = <<>>
    /\ dirs = {}
    /\ exit_code = -1
    /\ manifest_failed = FALSE

\* --- comment stripping -------------------------------------------------
\* Inputs are built from whole comment delimiters, from pieces of
\* delimiters and from ordinary text.
CommentFrags ==
    {CommentOpen, CommentClose, <<"<", "!">>, <<"-", "-">>, <<"a">>}

\* the fragments in which "<", "!", "-", ">" occur only as whole delimiters
WholeFrags == {CommentOpen, CommentClose, <<"a">>}

InitStrip ==
    /\ pc = "strip"
    /\ arg \in SeqsUpTo(CommentFrags, MaxCommentFrags)
    /\ outs = <<>>
    /\ RunIdle

\* the first call strips the input, a further call strips the last result
Strip ==
    /\ pc = "strip"
    /\ Len(outs) < 2
    /\ outs' = Append(outs, stripComments(IF outs = <<>> THEN Flatten(arg)
                                                     ELSE outs[Len(outs)]))
    /\ UNCHANGED <<pc, arg>>
    /\ UNCHANGED run_vars

NextStrip == Strip

SpecStrip == InitStrip /\ [][NextStrip]_vars

\* --- guide types -------------------------------------------------------
PathFrags ==
    {Python, Make, Sql, Postgresql, Shell, <<"S", "h", "e", "L", "L">>,
     <<"P", "y", "t", "h", "o", "n">>, <<"/", "x">>}

InitType ==
    /\ pc = "infer"
    /\ arg \in SeqsUpTo(PathFrags, MaxPathFrags)
    /\ outs = <<>>
    /\ RunIdle

InferType ==
    /\ pc = "infer"
    /\ outs = <<>>
    /\ outs' = <<infer_guide_type(Flatten(arg))>>
    /\ UNCHANGED <<pc, arg>>
    /\ UNCHANGED run_vars

NextType == InferType

SpecType == InitType /\ [][NextType]_vars


\* --- references --------------------------------------------------------
\* A markdown input is a sequence of items: links "[name](path)" whose name
\* holds no bracket and whose path holds no parenthesis, and other text.
Link(name, path) == [kind |-> "link", name |-> name, path |-> path]
Text(s) == [kind |-> "text", s |-> s]

LinkItems ==
    {Link(<<"A">>, <<"g", "u", "i", "d", "e", "s", "/", "a", ".", "m", "d">>),
     Link(<<"B", " ", "c">>, <<".", "/", "g", "u", "i", "d", "e", "s", "/", "s", "q", "l", ".", "m", "d">>),
     Link(<<"n">>, <<"a", ".", "m", "d">>),
     Link(<<"g">>, <<"g", "u", "i", "d", "e", "s", "/">>)}

TextItems ==
    {Text(<<"t">>), Text(<<"[">>), Text(<<"]">>), Text(<<"(">>), Text(<<")">>),
     Text(<<"\n">>)}

\* the markdown text of an item
Render(item) ==
    IF item.kind = "link"
    THEN <<"[">> \o item.name \o <<"]", "(">> \o item.path \o <<")">>
    ELSE item.s

RenderAll(items) == Flatten([i \in 1..Len(items) |-> Render(items[i])])

InitRefs ==
    /\ pc = "extract"
    /\ arg \in SeqsUpTo(LinkItems \cup TextItems, MaxLinkItems)
    /\ outs = <<>>
    /\ RunIdle

ExtractReferences ==
    /\ pc = "extract"
    /\ outs = <<>>
    /\ outs' = <<extract_references(RenderAll(arg))>>
    /\ UNCHANGED <<pc, arg>>
    /\ UNCHANGED run_vars

NextRefs == ExtractReferences

SpecRefs == InitRefs /\ [][NextRefs]_vars

----------------------------------------------------------------------------
(* Claims about the pure functions *)

\* C2 as stated: comment stripping is idempotent, stripping the stripped
\* text returns it unchanged, for every input text.
C2_StripIdempotent ==
    Len(outs) = 2 => outs[2] = outs[1]

OnlyWholeDelimiters(frags) == \A i \in 1..Len(frags) : frags[i] \in WholeFrags

\* C2 amended: comment stripping is idempotent on every text in which the
\* characters "<", "!", "-" and ">" occur only as parts of whole "<!--" and
\* "-->" delimiters.
C2_StripIdempotentOnWholeDelimiters ==
    (pc = "strip" /\ Len(outs) = 2 /\ OnlyWholeDelimiters(arg))
        => outs[2] = outs[1]

\* a text of whole delimiters from which a comment was removed and in which
\* a delimiter is left, stripped a second time
C2_Witness ==
    /\ pc = "strip" /\ Len(outs) = 2 /\ OnlyWholeDelimiters(arg)
    /\ outs[1] # Flatten(arg)
    /\ Contains(outs[1], CommentClose)
    /\ Contains(outs[1], CommentOpen)

GuideTypes == {Language, Pattern, Platform, Other}

\* C9: infer_guide_type is total and decides by fixed priority on the
\* lower-cased path: 'python' gives language; else 'make' gives pattern;
\* else 'postgresql' or 'sql' gives platform; else 'shell' gives language;
\* else other.
C9_InferTypePriority ==
    (pc = "infer" /\ outs # <<>>) =>
        LET p == Lower(Flatten(arg))
            t == outs[1]
            py == Contains(p, Python)
            mk == Contains(p, Make)
            sq == Contains(p, Postgresql) \/ Contains(p, Sql)
            sh == Contains(p, Shell)
        IN  /\ t \in GuideTypes
            /\ py => t = Language
            /\ (~py /\ mk) => t = Pattern
            /\ (~py /\ ~mk /\ sq) => t = Platform
            /\ (~py /\ ~mk /\ ~sq /\ sh) => t = Language
            /\ (~py /\ ~mk /\ ~sq /\ ~sh) => t = Other

\* a path with both 'shell' (in mixed case) and 'sql' and neither 'python'
\* nor 'make', classified platform
C9_Witness ==
    /\ pc = "infer" /\ outs = <<Platform>>
    /\ Contains(Flatten(arg), <<"S", "h", "e", "L", "L">>)
    /\ Contains(Flatten(arg), Sql)

\* the guide-style links of an input, by the claim's definition: the path
\* contains 'guides' and ends in '.md'
IsGuideLink(item) ==
    item.kind = "link" /\ Contains(item.path, Guides) /\ EndsWith(item.path, DotMd)

GuideLinksOf(items) ==
    LET links == SelectSeq(items, IsGuideLink)
    IN  [i \in 1..Len(links) |-> <<links[i].name, links[i].path>>]

NamesAndPaths(refs) == [i \in 1..Len(refs) |-> <<refs[i].name, refs[i].path>>]

\* C3 as stated: for an input with N guide-style links mixed with any other
\* text and any non-guide links, extract_references returns exactly N
\* records, one per guide-style link, in order, each carrying that link's
\* own name and path.
C3_OneRecordPerGuideLink ==
    (pc = "extract" /\ outs # <<>>) => NamesAndPaths(outs[1]) = GuideLinksOf(arg)

NoStrayOpenBracket(items) ==
    \A i \in 1..Len(items) : items[i].kind = "text" => ~Contains(items[i].s, <<"[">>)

\* C3 amended: the same, for every input whose text outside the links
\* contains no "[".
C3_OneRecordPerGuideLinkNoStrayBracket ==
    (pc = "extract" /\ outs # <<>> /\ NoStrayOpenBracket(arg))
        => NamesAndPaths(outs[1]) = GuideLinksOf(arg)

\* two guide-style links around a non-guide link, two records returned
C3_Witness ==
    /\ pc = "extract" /\ outs # <<>> /\ NoStrayOpenBracket(arg)
    /\ Len(outs[1]) = 2
    /\ \E i \in 1..Len(arg) : arg[i].kind = "link" /\ ~IsGuideLink(arg[i])

----------------------------------------------------------------------------
(* process_guide_markdown *)

\* re.search(r'^# (.*?)$', content, re.MULTILINE): the first line that
\* starts with "# "; 0 if there is none
title_line(text) ==
    LET starts == {i \in 1..Len(text) :
                      /\ i = 1 \/ text[i - 1] = "\n"
                      /\ MatchesAt(text, <<"#", " ">>, i)}
    IN  IF starts = {} THEN 0 ELSE Min(starts)

\* what process_guide_markdown returns for a file it could read
process_guide_markdown(file_path, raw) ==
    LET text == stripComments(raw)
        i == title_line(text)
    IN  [title |-> IF i # 0 THEN SubSeq(text, i + 2, LineEnd(text, i) - 1)
                   ELSE Replace(Basename(file_path), DotMd, <<>>),
         content |-> text]

----------------------------------------------------------------------------
(* The per-guide records of create_guide_json *)

today == "YYYY-MM-DD"

output_filename(guide_file) == Replace(Basename(guide_file), DotMd, DotJson)

\* f"{guide_type}s"
output_subdir(guide_file) == infer_guide_type(guide_file) \o <<"s">>

\* relative to output_dir
output_path(guide_file) ==
    Join(Join(ApiGuides, output_subdir(guide_file)), output_filename(guide_file))

specific_guide(guide_file, guide_data) ==
    [metadata |-> [name |-> guide_data.title,
                   type |-> infer_guide_type(guide_file),
                   version |-> "0.1.0",
                   lastUpdated |-> today,
                   source |-> <<"https://github.com/dwmkerr/ai-developer-guide/docs/guides/",
                                Basename(guide_file)>>],
     content |-> guide_data.content]

generated_guide(guide_file, guide_data) ==
    [name |-> guide_data.title,
     type |-> infer_guide_type(guide_file),
     path |-> ApiGuides \o Slash \o output_subdir(guide_file) \o Slash
              \o output_filename(guide_file)]

main_guide_json(content_, references_) ==
    [metadata |-> [name |-> "AI Developer Guide",
                   version |-> "0.1.0",
                   lastUpdated |-> today,
                   source |-> "https://github.com/dwmkerr/ai-developer-guide"],
     content |-> content_,
     references |-> references_]

----------------------------------------------------------------------------
(* create_index_html *)

\* the characters that occur in guide names, in code point order
CodeOrder == <<" ", "#", "-", ".", "/">> \o UpperCase \o <<"_">> \o LowerCase

\* a < b as Python compares strings
StrLess(a, b) ==
    \E k \in 1..(Len(b)) :
        /\ \A m \in 1..(k - 1) : m <= Len(a) /\ a[m] = b[m]
        /\ \/ k = Len(a) + 1
           \/ k <= Len(a) /\ IndexIn(a[k], CodeOrder) < IndexIn(b[k], CodeOrder)

RECURSIVE sort_by_name(_)
\* list.sort(key=lambda g: g["name"]): stable
sort_by_name(guides) ==
    IF guides = <<>> THEN <<>>
    ELSE LET rest == sort_by_name(SubSeq(guides, 1, Len(guides) - 1))
             g == guides[Len(guides)]
             before == SelectSeq(rest, LAMBDA x : ~StrLess(g.name, x.name))
             after == SelectSeq(rest, LAMBDA x : StrLess(g.name, x.name))
         IN  before \o <<g>> \o after

guide_type_order == <<Language, Pattern, Platform, Other>>

index_rows(guides) ==
    LET group(t) == sort_by_name(SelectSeq(guides, LAMBDA g : g.type = t))
        rows(t) == [i \in 1..Len(group(t)) |->
                       [type |-> Capitalize(t),
                        href |-> group(t)[i].path,
                        resource |-> Basename(group(t)[i].path),
                        description |-> group(t)[i].name]]
    IN  <<[type |-> "Manifest", href |-> ManifestPath,
           resource |-> ManifestPath, description |-> "MCP Server Manifest"],
          [type |-> "Main Guide", href |-> GuideJsonPath,
           resource |-> Basename(GuideJsonPath),
           description |-> "Complete AI Developer Guide"]>>
        \o Flatten([k \in 1..Len(guide_type_order) |-> rows(guide_type_order[k])])

----------------------------------------------------------------------------
(* generate_mcp_manifest *)

\* manifest.get("endpoints", [])
template_endpoints(manifest) ==
    IF "endpoints" \in DOMAIN manifest THEN manifest.endpoints ELSE <<>>

\* a plausible slip: the template's endpoints are all kept
kept_endpoints_all(manifest) == template_endpoints(manifest)

\* lines 225-226: only the endpoints named main_guide are kept
kept_endpoints(manifest) ==
    SelectSeq(template_endpoints(manifest), LAMBDA e : e.name = MainGuide)

RECURSIVE types_in_order(_)
\* the keys of guides_by_type: a dict keeps the order of first insertion
types_in_order(guides) ==
    IF guides = <<>> THEN <<>>
    ELSE LET rest == types_in_order(SubSeq(guides, 1, Len(guides) - 1))
             t == guides[Len(guides)].type
         IN  IF \E i \in 1..Len(rest) : rest[i] = t THEN rest ELSE Append(rest, t)

endpoint_of(guide) ==
    [name |-> Replace(Basename(guide.path), DotJson, <<>>),
     description |-> Capitalize(guide.type) \o GuideFor \o guide.name,
     path |-> Slash \o guide.path]

\* a plausible slip: the endpoints are appended without grouping
appended_endpoints_ungrouped(guides) ==
    [i \in 1..Len(guides) |-> endpoint_of(guides[i])]

\* lines 228-245: the guides are grouped by type, then one endpoint is
\* appended per guide, group after group
appended_endpoints(guides) ==
    LET types == types_in_order(guides)
        group(t) == SelectSeq(guides, LAMBDA g : g.type = t)
    IN  Flatten([k \in 1..Len(types) |->
                    [i \in 1..Len(group(types[k])) |->
                        endpoint_of(group(types[k])[i])]])

\* the manifest that is written
manifest_json(manifest, guides) ==
    LET endpoints == kept_endpoints(manifest) \o appended_endpoints(guides)
    IN  [k \in DOMAIN manifest \cup {"endpoints"} |->
            IF k = "endpoints" THEN endpoints ELSE manifest[k]]

\* a plausible slip: the manifest is written below api/
manifest_output_path_under_api == Join(Api, ManifestPath)

\* line 211, relative to output_dir
manifest_output_path == ManifestPath

\* a plausible slip: the handler re-raises, which ends the run
on_manifest_error_reraise == [pc |-> "exited", exit_code |-> 1]

\* lines 258-259: the error is printed and generate_mcp_manifest returns
on_manifest_error == [pc |-> "report", exit_code |-> -1]

----------------------------------------------------------------------------
(* The inputs of a run *)

ProjectDirs ==
    {<<"/", "w", "/", "s", "i", "t", "e">>,
     <<"/", "w", "/", "p", "y", "t", "h", "o", "n">>}

LinkMake ==
    <<"[", "M", "a", "k", "e", "]", "(", ".", "/", "d", "o", "c", "s", "/",
      "g", "u", "i", "d", "e", "s", "/", "m", "a", "k", "e", ".", "m", "d", ")">>
LinkNotes ==
    <<"[", "N", "o", "t", "e", "s", "]", "(", ".", "/", "d", "o", "c", "s", "/",
      "g", "u", "i", "d", "e", "s", "/", "n", "o", "t", "e", "s", ".", "m", "d", ")">>

\* README texts: with the marker, without it, with the marker inside a
\* comment, and with a marker that only appears once a comment is removed
RootDocs ==
    {Marker,
     <<"i", "\n">> \o Marker \o <<"\n">> \o LinkMake,
     LinkNotes \o <<"\n">> \o Marker \o <<"\n">> \o LinkMake,
     <<"i">>,
     CommentOpen \o Marker \o CommentClose \o <<"j">>,
     <<"#", "#", " ", "T", "h", "e", " ">> \o CommentOpen \o <<"c">>
        \o CommentClose \o <<"G", "o", "l", "d", "e", "n", " ", "R", "u", "l", "e", "s">>
        \o LinkNotes}

PythonMd == <<"p", "y", "t", "h", "o", "n", ".", "m", "d">>
MakeMd == <<"m", "a", "k", "e", ".", "m", "d">>
NotesMd == <<"n", "o", "t", "e", "s", ".", "m", "d">>
ShellMd == <<"s", "h", "e", "l", "l", ".", "m", "d">>

\* what docs/guides may hold: guides, a file that is no markdown and a
\* directory whose name ends in .md
DirEntries ==
    {[name |-> PythonMd, is_file |-> TRUE],
     [name |-> MakeMd, is_file |-> TRUE],
     [name |-> NotesMd, is_file |-> TRUE],
     [name |-> <<"l", "o", "g", "o", ".", "p", "n", "g">>, is_file |-> TRUE],
     [name |-> <<"o", "l", "d", ".", "m", "d">>, is_file |-> FALSE]}

\* the text of each guide file
GuideText(filename) ==
    CASE filename = PythonMd -> <<"#", " ", "P", "y", "t", "h", "o", "n", "\n", "x">>
      [] filename = MakeMd -> <<"<", "!", "-", "-", " ", "#", " ", "x", " ", "-", "-", ">", "b">>
      [] filename = NotesMd -> <<"a", "\n", "#", " ", "N", "o", "t", "e", "s">>
      [] OTHER -> <<"#", " ", "S", "h", "e", "l", "l">>

MainEndpoint ==
    [name |-> MainGuide,
     description |-> <<"M", "a", "i", "n", " ", "g", "u", "i", "d", "e">>,
     path |-> Slash \o GuideJsonPath]
OldEndpoint ==
    [name |-> <<"o", "l", "d">>,
     description |-> <<"O", "l", "d">>,
     path |-> <<"/", "a", "p", "i", "/", "o", "l", "d", ".", "j", "s", "o", "n">>]

\* mcp/manifest.template.json as the run finds it
RunTemplates ==
    {[status |-> "missing"],
     [status |-> "invalid"],
     [status |-> "ok", manifest |-> [name |-> "ai-developer-guide",
                                     endpoints |-> <<MainEndpoint, OldEndpoint>>]]}

----------------------------------------------------------------------------
(* create_guide_json, step by step *)

Put(f, k, v) == [x \in DOMAIN f \cup {k} |-> IF x = k THEN v ELSE f[x]]

guides_dir == Join(Join(project_dir, Docs), Guides)

\* lines 98-106, relative to output_dir
upfront_dirs ==
    {Api, ApiGuides} \cup
    {Join(ApiGuides, d) : d \in {Language \o <<"s">>, Pattern \o <<"s">>,
                                  Platform \o <<"s">>, Other}}

\* a plausible slip: a missing marker is taken for the start of the text
guide_start_idx_or_start(text) ==
    IF Find(text, Marker, 1) = 0 THEN 1 ELSE Find(text, Marker, 1)

\* content.find('## The Golden Rules'); 0 for -1
guide_start_idx(text) == Find(text, Marker, 1)

\* lines 136-138
listed_guide_files(dir, exists, entries) ==
    IF exists
    THEN LET kept == SelectSeq(entries,
                        LAMBDA e : EndsWith(e.name, DotMd) /\ e.is_file)
         IN  [i \in 1..Len(kept) |-> Join(dir, kept[i].name)]
    ELSE <<>>

Exit(code) == pc' = "exited" /\ exit_code' = code

Init ==
    /\ pc = "start"
    /\ project_dir \in ProjectDirs
    /\ content = <<>>
    /\ guide_content = <<>>
    /\ references = <<>>
    /\ guides_dir_exists = FALSE
    /\ guide_files = <<>>
    /\ generated_guides = <<>>
    /\ files = <<>>
    /\ dirs = {}
    /\ exit_code = -1
    /\ manifest_failed = FALSE
    /\ arg = <<>>
    /\ outs = <<>>

\* lines 92-114: the output directories are created and the README is read
ReadReadme ==
    /\ pc = "start"
    /\ dirs' = upfront_dirs
    /\ \E readable \in BOOLEAN, doc \in RootDocs :
          IF readable
          THEN content' = doc /\ pc' = "locate" /\ UNCHANGED exit_code
          ELSE UNCHANGED content /\ Exit(1)
    /\ UNCHANGED <<project_dir, guide_content, references, guides_dir_exists,
                   guide_files, generated_guides, files, manifest_failed,
                   arg, outs>>

\* lines 116-129: comments are removed, the marker is looked for and the
\* references are extracted from the marker onwards
LocateGuide ==
    /\ pc = "locate"
    /\ content' = stripComments(content)
    /\ IF guide_start_idx(content') = 0
       THEN Exit(1) /\ UNCHANGED <<guide_content, references>>
       ELSE /\ guide_content' = From(content', guide_start_idx(content'))
            /\ references' = extract_references(guide_content')
            /\ pc' = "list"
            /\ UNCHANGED exit_code
    /\ UNCHANGED <<project_dir, guides_dir_exists, guide_files,
                   generated_guides, files, dirs, manifest_failed, arg, outs>>

\* lines 131-138: the markdown files of docs/guides, in os.listdir's order
ListGuides ==
    /\ pc = "list"
    /\ \E exists \in BOOLEAN, entries \in DistinctSeqsUpTo(DirEntries, MaxDirEntries) :
          /\ guides_dir_exists' = exists
          /\ guide_files' = listed_guide_files(guides_dir, exists, entries)
    /\ pc' = "process"
    /\ UNCHANGED <<project_dir, content, guide_content, references,
                   generated_guides, files, dirs, exit_code, manifest_failed,
                   arg, outs>>

\* lines 141-174, one turn of the loop: a guide that cannot be read is
\* skipped, a guide file that cannot be written ends the run
ProcessGuide ==
    /\ pc = "process"
    /\ guide_files # <<>>
    /\ LET guide_file == Head(guide_files)
           guide_data == process_guide_markdown(guide_file,
                                                GuideText(Basename(guide_file)))
       IN  \E readable \in BOOLEAN, written \in BOOLEAN :
              IF ~readable
              THEN /\ guide_files' = Tail(guide_files)
                   /\ UNCHANGED <<pc, exit_code, files, dirs, generated_guides>>
              ELSE /\ dirs' = dirs \cup {Dirname(output_path(guide_file))}
                   /\ IF written
                      THEN /\ files' = Put(files, output_path(guide_file),
                                           specific_guide(guide_file, guide_data))
                           /\ generated_guides' =
                                 Append(generated_guides,
                                        generated_guide(guide_file, guide_data))
                           /\ guide_files' = Tail(guide_files)
                           /\ UNCHANGED <<pc, exit_code>>
                      ELSE /\ Exit(1)
                           /\ UNCHANGED <<files, generated_guides, guide_files>>
    /\ UNCHANGED <<project_dir, content, guide_content, references,
                   guides_dir_exists, manifest_failed, arg, outs>>

\* lines 176-192, after the loop: api/guide.json
WriteGuideJson ==
    /\ pc = "process"
    /\ guide_files = <<>>
    /\ \E written \in BOOLEAN :
          IF written
          THEN /\ files' = Put(files, GuideJsonPath,
                               main_guide_json(guide_content, references))
               /\ pc' = "index"
               /\ UNCHANGED exit_code
          ELSE Exit(1) /\ UNCHANGED files
    /\ UNCHANGED <<project_dir, content, guide_content, references,
                   guides_dir_exists, guide_files, generated_guides, dirs,
                   manifest_failed, arg, outs>>

\* lines 194-197 and 261-364: index.html
CreateIndexHtml ==
    /\ pc = "index"
    /\ \E written \in BOOLEAN :
          IF written
          THEN /\ files' = Put(files, IndexHtmlPath,
                               [rows |-> index_rows(generated_guides)])
               /\ pc' = "manifest"
               /\ UNCHANGED exit_code
          ELSE Exit(1) /\ UNCHANGED files
    /\ UNCHANGED <<project_dir, content, guide_content, references,
                   guides_dir_exists, guide_files, generated_guides, dirs,
                   manifest_failed, arg, outs>>

\* lines 199-200 and 208-259: manifest.json; a template that is missing or
\* does not parse and a manifest that cannot be written are caught
GenerateMcpManifest ==
    /\ pc = "manifest"
    /\ \E template \in RunTemplates, written \in BOOLEAN :
          IF template.status = "ok" /\ written
          THEN /\ files' = Put(files, manifest_output_path,
                               manifest_json(template.manifest, generated_guides))
               /\ pc' = "report"
               /\ UNCHANGED <<exit_code, manifest_failed>>
          ELSE /\ manifest_failed' = TRUE
               /\ pc' = on_manifest_error.pc
               /\ exit_code' = on_manifest_error.exit_code
               /\ UNCHANGED files
    /\ UNCHANGED <<project_dir, content, guide_content, references,
                   guides_dir_exists, guide_files, generated_guides, dirs,
                   arg, outs>>

\* lines 202-206: the generated files are listed and the script ends
ListGeneratedFiles ==
    /\ pc = "report"
    /\ pc' = "done"
    /\ exit_code' = 0
    /\ UNCHANGED <<project_dir, content, guide_content, references,
                   guides_dir_exists, guide_files, generated_guides, files,
                   dirs, manifest_failed, arg, outs>>

Next ==
    \/ ReadReadme
    \/ LocateGuide
    \/ ListGuides
    \/ ProcessGuide
    \/ WriteGuideJson
    \/ CreateIndexHtml
    \/ GenerateMcpManifest
    \/ ListGeneratedFiles

Spec == Init /\ [][Next]_vars

----------------------------------------------------------------------------
(* generate_mcp_manifest applied to templates and lists of generated      *)
(* guides drawn from bounded sets                                          *)

\* the records a run appends to generated_guides for these guide files
GeneratedPool ==
    {generated_guide(Join(<<"/", "w", "/", "s", "i", "t", "e", "/", "d", "o", "c", "s", "/",
                            "g", "u", "i", "d", "e", "s">>, f),
                     process_guide_markdown(f, GuideText(f))) :
        f \in {PythonMd, ShellMd, MakeMd, NotesMd}}

\* parsed templates, with and without an "endpoints" key
ParsedTemplates ==
    {[name |-> "ai-developer-guide", endpoints |-> e] :
        e \in SeqsUpTo({MainEndpoint, OldEndpoint}, MaxTemplateEndpoints)}
    \cup {[name |-> "ai-developer-guide"]}

InitManifest ==
    /\ pc = "endpoints"
    /\ arg \in [template : ParsedTemplates,
                guides : DistinctSeqsUpTo(GeneratedPool, MaxGenerated)]
    /\ outs = <<>>
    /\ RunIdle

BuildManifest ==
    /\ pc = "endpoints"
    /\ outs = <<>>
    /\ outs' = <<manifest_json(arg.template, arg.guides)>>
    /\ UNCHANGED <<pc, arg>>
    /\ UNCHANGED run_vars

NextManifest == BuildManifest

SpecManifest == InitManifest /\ [][NextManifest]_vars

----------------------------------------------------------------------------
(* Claims about a run *)

NoFileWritten == DOMAIN files = {}

UnderApiGuides(path) == MatchesAt(path, ApiGuides \o Slash, 1)

\* C1: a run whose README, after comment stripping, does not contain the
\* marker '## The Golden Rules' exits with a non-zero code, and no output
\* file has been written when it exits.
C1_NoMarkerNoOutput ==
    /\ (pc = "locate" /\ ~Contains(stripComments(content), Marker))
          => NoFileWritten
    /\ (pc \notin {"start", "locate"} /\ ~Contains(content, Marker))
          => (pc = "exited" /\ exit_code = 1 /\ NoFileWritten)

\* the README whose only marker is inside a comment: the run has exited
C1_Witness ==
    /\ pc = "exited" /\ exit_code = 1
    /\ content = <<"j">>
    /\ dirs # {}
    /\ NoFileWritten

\* the subdirectories of api/guides in the output layout
LayoutGuideDirs ==
    {ApiGuides \o Slash \o <<"l", "a", "n", "g", "u", "a", "g", "e", "s">>,
     ApiGuides \o Slash \o <<"p", "a", "t", "t", "e", "r", "n", "s">>,
     ApiGuides \o Slash \o <<"p", "l", "a", "t", "f", "o", "r", "m", "s">>,
     ApiGuides \o Slash \o <<"o", "t", "h", "e", "r">>}

\* C4: every per-guide JSON file a run writes is in one of the four
\* subdirectories of api/guides that the layout lists and that the run
\* creates up front: languages, patterns, platforms, other.
C4_GuideFilesInLayoutDirs ==
    \A p \in DOMAIN files :
        UnderApiGuides(p) =>
            (Dirname(p) \in LayoutGuideDirs /\ Dirname(p) \in upfront_dirs)

ManifestCaughtPcs == {"report", "done"}

\* C7: a failure while generating the manifest is caught: the run does not
\* abort, it ends with exit code 0, and the per-guide JSON files,
\* api/guide.json and index.html written earlier are present and unchanged.
C7_ManifestFailureCaught ==
    manifest_failed =>
        /\ pc \in ManifestCaughtPcs
        /\ exit_code # 1
        /\ pc = "done" => exit_code = 0
        /\ GuideJsonPath \in DOMAIN files
        /\ files[GuideJsonPath] = main_guide_json(guide_content, references)
        /\ IndexHtmlPath \in DOMAIN files
        /\ files[IndexHtmlPath] = [rows |-> index_rows(generated_guides)]
        /\ \A i \in 1..Len(generated_guides) :
              /\ generated_guides[i].path \in DOMAIN files
              /\ files[generated_guides[i].path].metadata.name
                    = generated_guides[i].name

\* a run that wrote a guide, failed to generate the manifest and ended
C7_Witness ==
    /\ manifest_failed
    /\ pc = "done" /\ exit_code = 0
    /\ generated_guides # <<>>

\* C8 as stated: a run whose README is readable and has the marker and
\* whose docs/guides directory does not exist completes having written
\* index.html, manifest.json and api/guide.json and no file under
\* api/guides/.
C8_NoGuidesDirAllWritten ==
    (pc = "done" /\ ~guides_dir_exists) =>
        /\ {IndexHtmlPath, ManifestPath, GuideJsonPath} \subseteq DOMAIN files
        /\ \A p \in DOMAIN files : ~UnderApiGuides(p)

\* C8 amended: such a run writes no file under api/guides/, and if no
\* write of api/guide.json or index.html fails it completes with exit code
\* 0 having written index.html and api/guide.json, and manifest.json
\* exactly when the generation of the manifest did not fail.
C8_NoGuidesDirWrittenUnlessManifestFails ==
    (pc \in {"process", "index", "manifest", "report", "done", "exited"}
       /\ Contains(content, Marker) /\ ~guides_dir_exists) =>
        /\ \A p \in DOMAIN files : ~UnderApiGuides(p)
        /\ pc = "exited" => (exit_code = 1 /\ ~manifest_failed)
        /\ pc = "done" =>
              /\ exit_code = 0
              /\ {IndexHtmlPath, GuideJsonPath} \subseteq DOMAIN files
              /\ ManifestPath \in DOMAIN files <=> ~manifest_failed

\* a completed run without docs/guides, with references in the README and
\* a manifest that was generated
C8_Witness ==
    /\ pc = "done" /\ ~guides_dir_exists /\ ~manifest_failed
    /\ references # <<>>
    /\ ManifestPath \in DOMAIN files

\* C10: a reference whose link path has the basename of a guide file the
\* run emitted has that guide's output path as its apiUrl, which names a
\* file the run wrote, and that guide's type as its type, wherever the
\* project directory is.
C10_ReferenceMatchesGuide ==
    \A i \in 1..Len(references), j \in 1..Len(generated_guides) :
        Replace(Basename(references[i].path), DotMd, DotJson)
              = Basename(generated_guides[j].path)
        => /\ references[i].apiUrl = generated_guides[j].path
           /\ references[i].type = generated_guides[j].type
           /\ references[i].apiUrl \in DOMAIN files

----------------------------------------------------------------------------
(* Claims about the manifest *)

\* the endpoints that follow the kept template endpoints
AppendedPart(endpoints, guides) ==
    SubSeq(endpoints, Len(endpoints) - Len(guides) + 1, Len(endpoints))

\* C5 as stated: the endpoints appended after main_guide are in the order
\* in which the guides were generated, for every mix of types.
C5_EndpointsInDiscoveryOrder ==
    (pc = "endpoints" /\ outs # <<>>) =>
        LET tail == AppendedPart(outs[1].endpoints, arg.guides)
        IN  /\ Len(tail) = Len(arg.guides)
            /\ \A i \in 1..Len(tail) : tail[i].path = Slash \o arg.guides[i].path

\* the position of a guide's endpoint among the appended endpoints
PosOf(tail, guide) == CHOOSE i \in 1..Len(tail) : tail[i].path = Slash \o guide.path

\* the first guide of a type
FirstOfType(guides, t) == Min({i \in 1..Len(guides) : guides[i].type = t})

\* C5 amended: the appended endpoints are grouped by guide type; the groups
\* are in the order in which each type first occurs among the generated
\* guides, and the endpoints of one group are in the guides' order.
C5_EndpointsGroupedByType ==
    (pc = "endpoints" /\ outs # <<>>) =>
        LET guides == arg.guides
            tail == AppendedPart(outs[1].endpoints, guides)
        IN  /\ Len(tail) = Len(guides)
            /\ \A i \in 1..Len(guides) :
                  \E k \in 1..Len(tail) : tail[k].path = Slash \o guides[i].path
            /\ \A i, j \in 1..Len(guides) :
                  LET fi == FirstOfType(guides, guides[i].type)
                      fj == FirstOfType(guides, guides[j].type)
                  IN  (fi < fj \/ (fi = fj /\ i < j))
                        => PosOf(tail, guides[i]) < PosOf(tail, guides[j])

\* guides of types language, pattern, language: the second language guide's
\* endpoint comes before the pattern guide's
C5_Witness ==
    /\ pc = "endpoints" /\ outs # <<>>
    /\ Len(arg.guides) = 3
    /\ arg.guides[1].type = Language
    /\ arg.guides[2].type = Pattern
    /\ arg.guides[3].type = Language
    /\ PosOf(AppendedPart(outs[1].endpoints, arg.guides), arg.guides[3]) = 2

MainGuideCount(manifest) ==
    Cardinality({i \in 1..Len(template_endpoints(manifest)) :
                    template_endpoints(manifest)[i].name = MainGuide})

\* C6: for a template with the main_guide endpoint, next to any other
\* endpoints, and N generated guides, the manifest has exactly N + 1
\* endpoints: the first is the template's main_guide entry unchanged, the
\* template's other endpoints are dropped, and each guide contributes
\* exactly one endpoint, whose path is "/" followed by the guide's path.
C6_ManifestEndpoints ==
    (pc = "endpoints" /\ outs # <<>> /\ MainGuideCount(arg.template) = 1) =>
        LET eps == outs[1].endpoints
        IN  /\ Len(eps) = Len(arg.guides) + 1
            /\ eps[1] = MainEndpoint
            /\ \A i \in 1..Len(eps) : eps[i] # OldEndpoint
            /\ \A i \in 1..Len(arg.guides) :
                  Cardinality({k \in 2..Len(eps) :
                                  eps[k].path = Slash \o arg.guides[i].path}) = 1

\* a template with another endpoint before main_guide, and three guides
C6_Witness ==
    /\ pc = "endpoints" /\ outs # <<>>
    /\ arg.template = [name |-> "ai-developer-guide",
                       endpoints |-> <<OldEndpoint, MainEndpoint>>]
    /\ Len(arg.guides) = 3
    /\ Len(outs[1].endpoints) = 4

=============================================================================
